---- MODULE Spec2Model ----
(***************************************************************************)
(* Model of mycroft/client/enclosure/enclosure.py: the serial bridge       *)
(* between the Mycroft Mark 1 Arduino and the message bus.                 *)
(*                                                                         *)
(*   EnclosureWriter  bounded queue of outbound commands + writer thread   *)
(*   EnclosureReader  reader thread + substring dispatch (process)         *)
(*   Enclosure        platform detection, serial lifecycle, bus handlers   *)
(*                                                                         *)
(* Text that the code inspects character by character (substring tests,    *)
(* the [:-2] slice) is a sequence of one-character strings.  Text that the  *)
(* code only passes along (command names, event names) is a string.        *)
(*                                                                         *)
(* The specifications share the actions:                                   *)
(*   SpecStartup  Enclosure.__init__ from the first line to its return     *)
(*   SpecWriter   the connected enclosure: callers of write, writer thread *)
(*   SpecBus      the connected enclosure: bus events and subscriptions    *)
(*   SpecReader   the reader thread: readline, process                     *)
(*   SpecStop     the connected enclosure until Enclosure.stop has closed  *)
(*                the port (SpecStopFair: with fair scheduling of threads) *)
(*   SpecRestart  SpecStartup, and the process started again after a       *)
(*                failed startup                                           *)
(***************************************************************************)
EXTENDS Naturals, Sequences, FiniteSets

\* ------------------------------------------------------------------------
\* Bounds of the model
\* ------------------------------------------------------------------------

\* enclosure.reset events the bus delivers in SpecWriter: with the self
\* reset and setup, 2 * MaxResets + 3 commands are produced, more than the
\* queue holds
MaxResets ==
    8

\* serial writes that fail in one behaviour
MaxWriteFailures ==
    2

\* bus events delivered in SpecBus
MaxBusEvents ==
    4

\* enclosure.reset events the bus delivers in SpecStop before the stop
MaxStopResets ==
    1

\* calls of Enclosure.stop in one behaviour: run calls it once
MaxStopCalls ==
    1

\* starts of the process in SpecRestart
MaxRuns ==
    2

\* ------------------------------------------------------------------------
\* Program constants
\* ------------------------------------------------------------------------

\* EnclosureWriter.__init__(..., size=16): Queue(size)
QueueSize ==
    16

\* the two threads that call EnclosureWriter.write: the main thread
\* (Enclosure.__init__, Enclosure.setup) and the bus thread (Enclosure.run,
\* which runs every bus handler)
Callers ==
    {"main", "bus"}

\* ------------------------------------------------------------------------
\* Text
\* ------------------------------------------------------------------------

StrMycroftStop ==
    <<"m", "y", "c", "r", "o", "f", "t", ".", "s", "t", "o", "p">>

StrVolumeUp ==
    <<"v", "o", "l", "u", "m", "e", ".", "u", "p">>

StrVolumeDown ==
    <<"v", "o", "l", "u", "m", "e", ".", "d", "o", "w", "n">>

StrSystemTestBegin ==
    <<"s", "y", "s", "t", "e", "m", ".", "t", "e", "s", "t", ".", "b",
    "e", "g", "i", "n">>

StrSystemTestEnd ==
    <<"s", "y", "s", "t", "e", "m", ".", "t", "e", "s", "t", ".", "e",
    "n", "d">>

StrMicTest ==
    <<"m", "i", "c", ".", "t", "e", "s", "t">>

StrUnitShutdown ==
    <<"u", "n", "i", "t", ".", "s", "h", "u", "t", "d", "o", "w", "n">>

StrUnitReboot ==
    <<"u", "n", "i", "t", ".", "r", "e", "b", "o", "o", "t">>

StrUnitSetwifi ==
    <<"u", "n", "i", "t", ".", "s", "e", "t", "w", "i", "f", "i">>

StrUnitFactoryReset ==
    <<"u", "n", "i", "t", ".", "f", "a", "c", "t", "o", "r", "y", "-",
    "r", "e", "s", "e", "t">>

StrCommandPing ==
    <<"C", "o", "m", "m", "a", "n", "d", ":", " ", "s", "y", "s", "t",
    "e", "m", ".", "p", "i", "n", "g">>

StrNoise ==
    <<"x", "y">>

StrSpace ==
    <<" ">>

StrVersion ==
    <<" ", "v", "1">>

CRLF ==
    <<"\r", "\n">>

LF ==
    <<"\n">>

\* needle in hay (Python: needle in hay, on str)
Contains(hay, needle) ==
    \E i \in 1..(Len(hay) + 1) :
        /\ i + Len(needle) - 1 <= Len(hay)
        /\ SubSeq(hay, i, i + Len(needle) - 1) = needle

\* ------------------------------------------------------------------------
\* State
\* ------------------------------------------------------------------------
VARIABLES
    \* Enclosure.__init__ / main()
    initPc,        \* position of the main thread
    persisted,     \* the configuration's enclosure.platform ("none": not set)
    platform,      \* local platform of __init__
    resetSelf,     \* local resetSelf of __init__
    serial,        \* self.serial of the Enclosure: "none" or "open"
    openHandles,   \* serial ports opened and not closed
    detectPc,      \* position inside detect_platform
    attempts,      \* calls of detect_platform
    pings,         \* "system.ping" writes of detect_platform
    detectLog,     \* per finished detect_platform call: how it ended
    \* the bus client
    listeners,     \* per event name: the handlers registered, in order
    busError,      \* the exception the last delivered event ended with
    invoked,       \* the handlers the last delivered event ran
    lastEvent,     \* the last delivered event: its name and its metadata flag
    \* callers of EnclosureWriter.write
    todo,          \* per caller: the commands its running handler still has to write
    handler,       \* per caller: the handler it runs (or ran last)
    enq,           \* per caller: what that handler invocation has enqueued so far
    curInv,        \* per caller: the number of that handler invocation
    nextInv,       \* handler invocations so far + 1
    busEvents,     \* bus events delivered so far
    \* EnclosureWriter
    commands,      \* self.commands, the Queue
    nextSeq,       \* commands enqueued so far + 1
    writerAlive,   \* self.alive
    writerPc,      \* position of the flush thread ("none": not started)
    cmd,           \* local cmd of flush
    serialOut,     \* the last line written to the serial port
    lastAttempt,   \* seq of the last command handed to serial.write
    lastWritten,   \* seq of the last command serial.write accepted
    writeResult,   \* outcome of the last serial.write
    failures,      \* serial writes that raised so far
    \* EnclosureReader
    readerAlive,   \* self.alive
    readerPc,      \* position of the read thread ("none": not started)
    data,          \* local data of read, the argument of process
    branch,        \* the if statement of process that is next (0: the first emit)
    emitted,       \* what process has done for this line, in order
    fired,         \* the branches of process entered for this line, in order
    raisedAt,      \* the branch whose action raised (0: none)
    lineResult,    \* how the last iteration of read ended
    faulted,       \* an iteration of read has ended without a dispatched line
    line,          \* what the last self.serial.readline() of read returned
    \* the life of the process
    configAtStart, \* the configuration's enclosure.platform when __init__ began
    runs,          \* starts of the process so far
    stopPc,        \* position inside Enclosure.stop ("idle": not running)
    stopCalls      \* calls of Enclosure.stop so far

mainVars ==
    <<initPc, persisted, platform, resetSelf, serial, openHandles,
      detectPc, attempts, pings, detectLog>>
busVars == <<listeners, busError, invoked, lastEvent>>
callVars == <<todo, handler, enq, curInv, nextInv, busEvents>>
writerVars ==
    <<commands, nextSeq, writerAlive, writerPc, cmd, serialOut,
      lastAttempt, lastWritten, writeResult, failures>>
readerVars ==
    <<readerAlive, readerPc, data, branch, emitted, fired, raisedAt,
      lineResult, faulted, line>>
lifeVars == <<configAtStart, runs, stopPc, stopCalls>>
vars == <<mainVars, busVars, callVars, writerVars, readerVars, lifeVars>>

\* ------------------------------------------------------------------------
\* EnclosureWriter
\* ------------------------------------------------------------------------

\* a queued command: the text, and (for the properties) the rank of its
\* enqueue and the handler invocation that wrote it
Entry(c, s, k) == [cmd |-> c, seq |-> s, inv |-> k]

NoCmd == Entry("", 0, 0)

\* a queue without a capacity
QueueFullNever(q) == FALSE

\* Queue(size): put blocks while the queue holds size items
QueueFull(q) == Len(q) >= QueueSize

\* Queue.get of a LIFO queue
QueueGetLifo(q) ==
    [item |-> q[Len(q)], rest |-> SubSeq(q, 1, Len(q) - 1)]

\* Queue.get: the oldest item
QueueGet(q) ==
    [item |-> Head(q), rest |-> Tail(q)]

\* a flush that puts the failed command back
RequeueAfterWriteError(q, c) == <<c>> \o q

\* flush, except branch: the error is logged, the queue is left as it is
QueueAfterWriteError(q, c) == q

\* self.serial.write(cmd + '\n')
WireLine(c) == <<c, "\n">>

\* EnclosureWriter.write(command), called by caller p for the next command
\* of its handler: self.commands.put(str(command)) blocks while the queue
\* is full
WriterWrite(p) ==
    /\ todo[p] # <<>>
    /\ ~QueueFull(commands)
    /\ LET e == Entry(Head(todo[p]), nextSeq, curInv[p])
       IN  /\ commands' = Append(commands, e)
           /\ enq' = [enq EXCEPT ![p] = Append(@, e)]
    /\ nextSeq' = nextSeq + 1
    /\ todo' = [todo EXCEPT ![p] = Tail(@)]
    /\ UNCHANGED <<handler, curInv, nextInv, busEvents>>
    /\ UNCHANGED <<writerAlive, writerPc, cmd, serialOut, lastAttempt,
                   lastWritten, writeResult, failures>>
    /\ UNCHANGED <<mainVars, busVars, readerVars>>
    /\ UNCHANGED lifeVars

\* flush: while self.alive
WriterLoop ==
    /\ writerPc = "top"
    /\ writerPc' = IF writerAlive THEN "get" ELSE "exit"
    /\ UNCHANGED <<commands, nextSeq, writerAlive, cmd, serialOut,
                   lastAttempt, lastWritten, writeResult, failures>>
    /\ UNCHANGED <<mainVars, busVars, callVars, readerVars>>
    /\ UNCHANGED lifeVars

\* flush: cmd = self.commands.get(), which blocks while the queue is empty
WriterGet ==
    /\ writerPc = "get"
    /\ commands # <<>>
    /\ cmd' = QueueGet(commands).item
    /\ commands' = QueueGet(commands).rest
    /\ writerPc' = "write"
    /\ UNCHANGED <<nextSeq, writerAlive, serialOut, lastAttempt, lastWritten,
                   writeResult, failures>>
    /\ UNCHANGED <<mainVars, busVars, callVars, readerVars>>
    /\ UNCHANGED lifeVars

\* flush: self.serial.write(cmd + '\n') returns; log; task_done
SerialWriteOk ==
    /\ writerPc = "write"
    /\ serialOut' = WireLine(cmd.cmd)
    /\ lastAttempt' = cmd.seq
    /\ lastWritten' = cmd.seq
    /\ writeResult' = "ok"
    /\ cmd' = NoCmd
    /\ writerPc' = "top"
    /\ UNCHANGED <<commands, nextSeq, writerAlive, failures>>
    /\ UNCHANGED <<mainVars, busVars, callVars, readerVars>>
    /\ UNCHANGED lifeVars

\* flush: self.serial.write raises; except Exception: log; loop
SerialWriteError ==
    /\ writerPc = "write"
    /\ failures < MaxWriteFailures
    /\ failures' = failures + 1
    /\ lastAttempt' = cmd.seq
    /\ writeResult' = "error"
    /\ commands' = QueueAfterWriteError(commands, cmd)
    /\ cmd' = NoCmd
    /\ writerPc' = "top"
    /\ UNCHANGED <<nextSeq, writerAlive, serialOut, lastWritten>>
    /\ UNCHANGED <<mainVars, busVars, callVars, readerVars>>
    /\ UNCHANGED lifeVars

\* ------------------------------------------------------------------------
\* The bus client (WebsocketClient over a pyee EventEmitter)
\* ------------------------------------------------------------------------

EventNames ==
    {"mycroft.paired", "enclosure.reset", "enclosure.mouth.listeners",
     "recognizer_loop:record_begin", "recognizer_loop:record_end",
     "recognizer_loop:audio_output_start", "recognizer_loop:audio_output_end"}

\* client.on(event, f): the emitter appends f to the event's listener list
ClientOn(ls, ev, h) == [ls EXCEPT ![ev] = Append(@, h)]

\* the first index of h in the list l, 0 when h is not in it
IndexOf(l, h) ==
    IF \E i \in 1..Len(l) : l[i] = h
    THEN CHOOSE i \in 1..Len(l) : l[i] = h /\ \A j \in 1..(i - 1) : l[j] # h
    ELSE 0

\* client.remove(event, f): the emitter removes the first f from the
\* event's listener list (list.remove); ValueError when f is not in it
ClientRemove(ls, ev, h) ==
    LET i == IndexOf(ls[ev], h)
    IN  IF i = 0
        THEN [error |-> "ValueError", ls |-> ls]
        ELSE [error |-> "none",
              ls |-> [ls EXCEPT ![ev] =
                        SubSeq(@, 1, i - 1) \o SubSeq(@, i + 1, Len(@))]]

\* the command a mouth handler writes (EnclosureMouth.listen/reset/talk)
MouthCommand(h) == h

\* ------------------------------------------------------------------------
\* Enclosure: subscriptions
\* ------------------------------------------------------------------------

\* the four mouth subscriptions, in the order of __register_mouth_events
MouthEvents ==
    << [event |-> "recognizer_loop:record_begin", handler |-> "mouth.listen"],
       [event |-> "recognizer_loop:record_end", handler |-> "mouth.reset"],
       [event |-> "recognizer_loop:audio_output_start", handler |-> "mouth.talk"],
       [event |-> "recognizer_loop:audio_output_end", handler |-> "mouth.reset"] >>

\* __register_mouth_events: four client.on calls
RegisterMouthEvents(ls) ==
    LET on(l, k) == ClientOn(l, MouthEvents[k].event, MouthEvents[k].handler)
    IN  on(on(on(on(ls, 1), 2), 3), 4)

\* a __remove_mouth_events that forgets the last subscription
RemoveMouthEventsButLast(ls) ==
    LET rm(r, k) == IF r.error # "none"
                    THEN r
                    ELSE ClientRemove(r.ls, MouthEvents[k].event,
                                      MouthEvents[k].handler)
    IN  rm(rm(rm([error |-> "none", ls |-> ls], 1), 2), 3)

\* __remove_mouth_events: four client.remove calls; the first that raises
\* ends the handler
RemoveMouthEvents(ls) ==
    LET rm(r, k) == IF r.error # "none"
                    THEN r
                    ELSE ClientRemove(r.ls, MouthEvents[k].event,
                                      MouthEvents[k].handler)
    IN  rm(rm(rm(rm([error |-> "none", ls |-> ls], 1), 2), 3), 4)

\* __register_events: the three baseline subscriptions, then the mouth ones
RegisterBaseline(ls) ==
    ClientOn(ClientOn(ClientOn(ls,
        "mycroft.paired", "__update_events"),
        "enclosure.reset", "__handle_reset"),
        "enclosure.mouth.listeners", "__mouth_listeners")

\* __update_events(event) / __mouth_listeners(event): flag is the event's
\* metadata: "absent" (no metadata, or an empty one), "on" (paired / active
\* is true) or "off"
ToggleMouthEvents(ls, flag) ==
    IF flag = "absent"
    THEN [error |-> "none", ls |-> ls]
    ELSE IF flag = "on"
         THEN [error |-> "none", ls |-> RegisterMouthEvents(ls)]
         ELSE RemoveMouthEvents(ls)

\* a reset handler that writes the mouth first
ResetCommandsSwapped == <<"mouth.reset", "eyes.reset">>

\* __handle_reset: self.writer.write("eyes.reset"); self.writer.write("mouth.reset")
ResetCommands == <<"eyes.reset", "mouth.reset">>

\* caller p enters a handler h that will write the commands cs
Invoke(p, h, cs) ==
    /\ todo[p] = <<>>
    /\ todo' = [todo EXCEPT ![p] = cs]
    /\ handler' = [handler EXCEPT ![p] = h]
    /\ enq' = [enq EXCEPT ![p] = <<>>]
    /\ curInv' = [curInv EXCEPT ![p] = nextInv]
    /\ nextInv' = nextInv + 1

\* the bus thread is between two events: run() has been started by main(),
\* client.run_forever() has not raised, and no handler is running
BusIdle ==
    /\ initPc \in {"done", "joined"}
    /\ stopPc = "idle"
    /\ todo["bus"] = <<>>

\* the bus delivers an enclosure.reset event: __handle_reset(event)
DeliverReset ==
    /\ BusIdle
    /\ listeners["enclosure.reset"] = <<"__handle_reset">>
    /\ busEvents' = busEvents + 1
    /\ Invoke("bus", "reset", ResetCommands)
    /\ invoked' = listeners["enclosure.reset"]
    /\ lastEvent' = [name |-> "enclosure.reset", flag |-> "absent"]
    /\ busError' = "none"
    /\ UNCHANGED <<listeners, mainVars, writerVars, readerVars>>
    /\ UNCHANGED lifeVars

\* the bus delivers a mycroft.paired event: __update_events(event)
BusPaired(flag) ==
    /\ BusIdle
    /\ listeners["mycroft.paired"] = <<"__update_events">>
    /\ busEvents < MaxBusEvents
    /\ busEvents' = busEvents + 1
    /\ listeners' = ToggleMouthEvents(listeners, flag).ls
    /\ busError' = ToggleMouthEvents(listeners, flag).error
    /\ invoked' = listeners["mycroft.paired"]
    /\ lastEvent' = [name |-> "mycroft.paired", flag |-> flag]
    /\ UNCHANGED <<todo, handler, enq, curInv, nextInv>>
    /\ UNCHANGED <<mainVars, writerVars, readerVars>>
    /\ UNCHANGED lifeVars

\* the bus delivers an enclosure.mouth.listeners event:
\* __mouth_listeners(event)
BusMouthListeners(flag) ==
    /\ BusIdle
    /\ listeners["enclosure.mouth.listeners"] = <<"__mouth_listeners">>
    /\ busEvents < MaxBusEvents
    /\ busEvents' = busEvents + 1
    /\ listeners' = ToggleMouthEvents(listeners, flag).ls
    /\ busError' = ToggleMouthEvents(listeners, flag).error
    /\ invoked' = listeners["enclosure.mouth.listeners"]
    /\ lastEvent' = [name |-> "enclosure.mouth.listeners", flag |-> flag]
    /\ UNCHANGED <<todo, handler, enq, curInv, nextInv>>
    /\ UNCHANGED <<mainVars, writerVars, readerVars>>
    /\ UNCHANGED lifeVars

\* the bus delivers one of the four mouth events: the emitter calls every
\* handler of the event's list, in order, and each writes its command
BusMouthEvent(k) ==
    /\ BusIdle
    /\ busEvents < MaxBusEvents
    /\ busEvents' = busEvents + 1
    /\ LET hs == listeners[MouthEvents[k].event]
       IN  /\ invoked' = hs
           /\ Invoke("bus", "mouth", [i \in 1..Len(hs) |-> MouthCommand(hs[i])])
    /\ lastEvent' = [name |-> MouthEvents[k].event, flag |-> "absent"]
    /\ busError' = "none"
    /\ UNCHANGED <<listeners, mainVars, writerVars, readerVars>>
    /\ UNCHANGED lifeVars

\* ------------------------------------------------------------------------
\* Enclosure: serial port and platform detection
\* ------------------------------------------------------------------------

\* an __init_serial that opens a port whether or not one is open
InitSerialAlwaysOpens(s) ==
    {[raised |-> FALSE, serial |-> "open", opened |-> 1],
     [raised |-> TRUE, serial |-> s, opened |-> 0]}

\* __init_serial: nothing when self.serial is set; else serial_for_url,
\* which returns an open port or raises
InitSerial(s) ==
    IF s # "none"
    THEN {[raised |-> FALSE, serial |-> s, opened |-> 0]}
    ELSE {[raised |-> FALSE, serial |-> "open", opened |-> 1],
          [raised |-> TRUE, serial |-> "none", opened |-> 0]}

\* disconnect: if self.serial is not None: self.serial.close();
\* self.serial = None
Disconnect(s) ==
    [serial |-> "none", closed |-> IF s # "none" THEN 1 ELSE 0]

\* an __init__ that detects whenever no Mark 1 is configured
PlatformMissingOrUnknown(p) == p \in {"none", "unknown"}

\* an __init__ that detects at every start
PlatformMissingAlways(p) == TRUE

\* __init__: if platform is None
PlatformMissing(p) == p = "none"

\* an __init__ that stores only a platform it has recognised
ConfigurationSetIfKnown(old, p) == IF p = "unknown" THEN old ELSE p

\* __init__: ConfigurationManager.set('enclosure', 'platform', platform):
\* the configuration's platform after the call (old: before it)
ConfigurationSet(old, p) == p

\* an __init__ that does not ask for the reset
ResetSelfAfterDetectNever == FALSE

\* __init__: resetSelf = True, after a detection
ResetSelfAfterDetect == TRUE

\* what readline may return to detect_platform: the echo of the ping, the
\* echo with noise before and a version after it, noise, nothing (timeout)
DetectReplies ==
    {StrCommandPing \o CRLF,
     StrNoise \o StrCommandPing \o StrVersion \o CRLF,
     StrNoise \o CRLF,
     <<>>}

\* detect_platform: "Command: system.ping" in data
DetectResult(reply) ==
    IF Contains(reply, StrCommandPing) THEN "mycroft_mark_1" ELSE "unknown"

\* an __init__ that takes the first answer
NeedsRetryNever(p) == FALSE

\* __init__: if platform == 'unknown': platform = self.detect_platform()
NeedsRetry(p) == p = "unknown"

\* detect_platform returns result; stage and reply say how the call went
DetectReturn(result, stage, reply) ==
    /\ platform' = result
    /\ detectLog' = Append(detectLog,
                           [stage |-> stage, reply |-> reply, result |-> result])
    /\ detectPc' = "idle"
    /\ initPc' = IF initPc = "detect1" THEN "after1" ELSE "persist"

\* __init__: platform = self.config.get('platform')
InitReadConfig ==
    /\ initPc = "config"
    /\ platform' = persisted
    /\ initPc' = IF PlatformMissing(persisted) THEN "detect1" ELSE "check"
    /\ UNCHANGED <<persisted, resetSelf, serial, openHandles, detectPc,
                   attempts, pings, detectLog>>
    /\ UNCHANGED <<busVars, callVars, writerVars, readerVars>>
    /\ UNCHANGED lifeVars

\* detect_platform is entered
DetectBegin ==
    /\ initPc \in {"detect1", "detect2"}
    /\ detectPc = "idle"
    /\ attempts' = attempts + 1
    /\ detectPc' = "open"
    /\ UNCHANGED <<initPc, persisted, platform, resetSelf, serial,
                   openHandles, pings, detectLog>>
    /\ UNCHANGED <<busVars, callVars, writerVars, readerVars>>
    /\ UNCHANGED lifeVars

\* detect_platform: self.__init_serial(); an exception ends the call with
\* "unknown" (bare except)
DetectOpen ==
    /\ detectPc = "open"
    /\ \E o \in InitSerial(serial) :
          IF o.raised
          THEN /\ DetectReturn("unknown", "open", <<>>)
               /\ UNCHANGED <<serial, openHandles>>
          ELSE /\ serial' = o.serial
               /\ openHandles' = openHandles + o.opened
               /\ detectPc' = "ping"
               /\ UNCHANGED <<initPc, platform, detectLog>>
    /\ UNCHANGED <<persisted, resetSelf, attempts, pings>>
    /\ UNCHANGED <<busVars, callVars, writerVars, readerVars>>
    /\ UNCHANGED lifeVars

\* detect_platform: flushInput, flushOutput, write("system.ping") (the
\* ping goes out as it is, without a line break); an exception ends the
\* call with "unknown"
DetectPing ==
    /\ detectPc = "ping"
    /\ \E ok \in BOOLEAN :
          IF ok
          THEN /\ pings' = pings + 1
               /\ serialOut' = <<"system.ping">>
               /\ detectPc' = "read"
               /\ UNCHANGED <<initPc, platform, detectLog>>
          ELSE /\ DetectReturn("unknown", "ping", <<>>)
               /\ UNCHANGED <<pings, serialOut>>
    /\ UNCHANGED <<persisted, resetSelf, serial, openHandles, attempts>>
    /\ UNCHANGED <<commands, nextSeq, writerAlive, writerPc, cmd, lastAttempt,
                   lastWritten, writeResult, failures>>
    /\ UNCHANGED <<busVars, callVars, readerVars>>
    /\ UNCHANGED lifeVars

\* detect_platform: data = self.serial.readline() and the test of data
DetectRead ==
    /\ detectPc = "read"
    /\ \/ \E reply \in DetectReplies :
             DetectReturn(DetectResult(reply), "reply", reply)
       \/ DetectReturn("unknown", "read", <<>>)
    /\ UNCHANGED <<persisted, resetSelf, serial, openHandles, attempts, pings>>
    /\ UNCHANGED <<busVars, callVars, writerVars, readerVars>>
    /\ UNCHANGED lifeVars

\* __init__: if platform == 'unknown', after the first detect_platform
InitAfterFirst ==
    /\ initPc = "after1"
    /\ initPc' = IF NeedsRetry(platform) THEN "detect2" ELSE "persist"
    /\ UNCHANGED <<persisted, platform, resetSelf, serial, openHandles,
                   detectPc, attempts, pings, detectLog>>
    /\ UNCHANGED <<busVars, callVars, writerVars, readerVars>>
    /\ UNCHANGED lifeVars

\* __init__: ConfigurationManager.set('enclosure', 'platform', platform);
\* resetSelf = True
InitPersist ==
    /\ initPc = "persist"
    /\ persisted' = ConfigurationSet(persisted, platform)
    /\ resetSelf' = ResetSelfAfterDetect
    /\ initPc' = "check"
    /\ UNCHANGED <<platform, serial, openHandles, detectPc, attempts, pings,
                   detectLog>>
    /\ UNCHANGED <<busVars, callVars, writerVars, readerVars>>
    /\ UNCHANGED lifeVars

\* __init__: if platform == "mycroft_mark_1": self.__init_serial() (an
\* exception of it leaves __init__); else: self.disconnect(); raise
InitCheck ==
    /\ initPc = "check"
    /\ IF platform = "mycroft_mark_1"
       THEN \E o \in InitSerial(serial) :
               /\ serial' = o.serial
               /\ openHandles' = openHandles + o.opened
               /\ initPc' = IF o.raised THEN "failed" ELSE "threads"
       ELSE /\ serial' = Disconnect(serial).serial
            /\ openHandles' = openHandles - Disconnect(serial).closed
            /\ initPc' = "failed"
    /\ UNCHANGED <<persisted, platform, resetSelf, detectPc, attempts, pings,
                   detectLog>>
    /\ UNCHANGED <<busVars, callVars, writerVars, readerVars>>
    /\ UNCHANGED lifeVars

\* __init__: WebsocketClient(), EnclosureReader(...), EnclosureWriter(...):
\* both constructors start their thread
InitStartThreads ==
    /\ initPc = "threads"
    /\ readerPc' = "top"
    /\ readerAlive' = TRUE
    /\ UNCHANGED <<data, branch, emitted, fired, raisedAt, lineResult,
                   faulted, line>>
    /\ writerPc' = "top"
    /\ writerAlive' = TRUE
    /\ initPc' = "register"
    /\ UNCHANGED <<persisted, platform, resetSelf, serial, openHandles,
                   detectPc, attempts, pings, detectLog>>
    /\ UNCHANGED <<commands, nextSeq, cmd, serialOut, lastAttempt,
                   lastWritten, writeResult, failures>>
    /\ UNCHANGED <<busVars, callVars>>
    /\ UNCHANGED lifeVars

\* __init__: self.__register_events()
RegisterEvents ==
    /\ initPc = "register"
    /\ listeners' = RegisterMouthEvents(RegisterBaseline(listeners))
    /\ initPc' = "selfreset"
    /\ UNCHANGED <<busError, invoked, lastEvent>>
    /\ UNCHANGED <<persisted, platform, resetSelf, serial, openHandles,
                   detectPc, attempts, pings, detectLog>>
    /\ UNCHANGED <<callVars, writerVars, readerVars>>
    /\ UNCHANGED lifeVars

\* __init__: if resetSelf: self.__handle_reset(None)
InitSelfReset ==
    /\ initPc = "selfreset"
    /\ IF resetSelf
       THEN /\ Invoke("main", "reset", ResetCommands)
            /\ initPc' = "resetting"
       ELSE /\ initPc' = "done"
            /\ UNCHANGED <<todo, handler, enq, curInv, nextInv>>
    /\ UNCHANGED <<persisted, platform, resetSelf, serial, openHandles,
                   detectPc, attempts, pings, detectLog>>
    /\ UNCHANGED <<busEvents, busVars, writerVars, readerVars>>
    /\ UNCHANGED lifeVars

\* __init__ returns when the self reset has written its two commands
InitReturn ==
    /\ initPc = "resetting"
    /\ todo["main"] = <<>>
    /\ initPc' = "done"
    /\ UNCHANGED <<persisted, platform, resetSelf, serial, openHandles,
                   detectPc, attempts, pings, detectLog>>
    /\ UNCHANGED <<busVars, callVars, writerVars, readerVars>>
    /\ UNCHANGED lifeVars

\* main(): enclosure.setup() on the main thread, after the bus thread was
\* started.  With must_start_test set it writes "test.begin".
Setup ==
    /\ initPc = "done"
    /\ \E must_start_test \in BOOLEAN :
          IF must_start_test
          THEN Invoke("main", "setup", <<"test.begin">>)
          ELSE UNCHANGED <<todo, handler, enq, curInv, nextInv>>
    /\ initPc' = "joined"
    /\ UNCHANGED <<persisted, platform, resetSelf, serial, openHandles,
                   detectPc, attempts, pings, detectLog>>
    /\ UNCHANGED <<busEvents, busVars, writerVars, readerVars>>
    /\ UNCHANGED lifeVars



\* main(): the exception of __init__ is printed and the process exits; the
\* process is started again and finds the configuration as it was left
ProcessRestart ==
    /\ initPc = "failed"
    /\ runs < MaxRuns
    /\ runs' = runs + 1
    /\ configAtStart' = persisted
    /\ initPc' = "config"
    /\ platform' = "none"
    /\ resetSelf' = FALSE
    /\ serial' = "none"
    /\ openHandles' = 0
    /\ detectPc' = "idle"
    /\ attempts' = 0
    /\ pings' = 0
    /\ detectLog' = <<>>
    /\ serialOut' = <<>>
    /\ UNCHANGED <<persisted, stopPc, stopCalls>>
    /\ UNCHANGED <<commands, nextSeq, writerAlive, writerPc, cmd, lastAttempt,
                   lastWritten, writeResult, failures>>
    /\ UNCHANGED <<busVars, callVars, readerVars>>
\* ------------------------------------------------------------------------
\* Enclosure: stop and disconnect
\* ------------------------------------------------------------------------

\* a join that does not wait for the thread
JoinReturnsAtOnce(pc) == TRUE

\* Thread.join(), as called by EnclosureWriter.stop and EnclosureReader.stop:
\* it returns once the thread's target (flush, read) has returned
JoinReturns(pc) == pc = "exit"

\* run: client.run_forever() raised and the except branch calls self.stop()
\* on the bus thread; a later call finds the enclosure stopped
StopBegin ==
    /\ stopPc \in {"idle", "stopped"}
    /\ initPc \in {"done", "joined"}
    /\ todo["bus"] = <<>>
    /\ stopCalls < MaxStopCalls
    /\ stopCalls' = stopCalls + 1
    /\ stopPc' = "writer_stop"
    /\ UNCHANGED <<configAtStart, runs>>
    /\ UNCHANGED <<mainVars, busVars, callVars, writerVars, readerVars>>

\* stop: self.writer.stop(): self.alive = False
WriterStopSignal ==
    /\ stopPc = "writer_stop"
    /\ writerAlive' = FALSE
    /\ stopPc' = "writer_join"
    /\ UNCHANGED <<commands, nextSeq, writerPc, cmd, serialOut, lastAttempt,
                   lastWritten, writeResult, failures>>
    /\ UNCHANGED <<configAtStart, runs, stopCalls>>
    /\ UNCHANGED <<mainVars, busVars, callVars, readerVars>>

\* EnclosureWriter.stop: self.join()
WriterJoin ==
    /\ stopPc = "writer_join"
    /\ JoinReturns(writerPc)
    /\ stopPc' = "reader_stop"
    /\ UNCHANGED <<configAtStart, runs, stopCalls>>
    /\ UNCHANGED <<mainVars, busVars, callVars, writerVars, readerVars>>

\* stop: self.reader.stop(): self.alive = False
ReaderStopSignal ==
    /\ stopPc = "reader_stop"
    /\ readerAlive' = FALSE
    /\ stopPc' = "reader_join"
    /\ UNCHANGED <<readerPc, data, branch, emitted, fired, raisedAt,
                   lineResult, faulted, line>>
    /\ UNCHANGED <<configAtStart, runs, stopCalls>>
    /\ UNCHANGED <<mainVars, busVars, callVars, writerVars>>

\* EnclosureReader.stop: self.join()
ReaderJoin ==
    /\ stopPc = "reader_join"
    /\ JoinReturns(readerPc)
    /\ stopPc' = "disconnect"
    /\ UNCHANGED <<configAtStart, runs, stopCalls>>
    /\ UNCHANGED <<mainVars, busVars, callVars, writerVars, readerVars>>

\* stop: self.disconnect(); stop returns
StopDisconnect ==
    /\ stopPc = "disconnect"
    /\ serial' = Disconnect(serial).serial
    /\ openHandles' = openHandles - Disconnect(serial).closed
    /\ stopPc' = "stopped"
    /\ UNCHANGED <<initPc, persisted, platform, resetSelf, detectPc,
                   attempts, pings, detectLog>>
    /\ UNCHANGED <<configAtStart, runs, stopCalls>>
    /\ UNCHANGED <<busVars, callVars, writerVars, readerVars>>
\* ------------------------------------------------------------------------
\* EnclosureReader
\* ------------------------------------------------------------------------

\* one thing process does: kind "emit" is self.client.emit(Message(name,
\* metadata)), "emit_line" is self.client.emit(Message(data)) whose name is
\* the line itself; the other kinds are the helper calls of the branch
Did(kind, name, meta) == [kind |-> kind, name |-> name, meta |-> meta, line |-> <<>>]

\* self.client.emit(Message(data))
EmitLine(d) == [kind |-> "emit_line", name |-> "", meta |-> "", line |-> d]

\* a mycroft.stop branch that publishes before it persists the signal
StopActionsEmitFirst ==
    << Did("emit", "mycroft.stop", ""),
       Did("create_signal", "buttonPress", "") >>

\* process, if "mycroft.stop" in data: create_signal('buttonPress');
\* emit(Message("mycroft.stop"))
StopActions ==
    << Did("create_signal", "buttonPress", ""),
       Did("emit", "mycroft.stop", "") >>

\* process, if "mic.test" in data, once Mixer() has returned
MicTestActions ==
    << Did("mixer", "getvolume", ""),
       Did("mixer", "setvolume", "35"),
       Did("emit", "speak", "utterance=I am testing one two three"),
       Did("sleep", "0.5", ""),
       Did("record", "/tmp/test.wav", "3.0"),
       Did("mixer", "setvolume", "prev_vol"),
       Did("play_wav", "/tmp/test.wav", ""),
       Did("sleep", "3.5", ""),
       Did("call", "speaker-test -P 10 -l 0 -s 1", "") >>

\* the if statements of process, in the order of the source: the substring
\* tested, and what the branch does
DispatchTable ==
    << [name |-> "mycroft.stop", needle |-> StrMycroftStop,
        actions |-> StopActions],
       [name |-> "volume.up", needle |-> StrVolumeUp,
        actions |-> << Did("emit", "IncreaseVolumeIntent", "play_sound=True") >>],
       [name |-> "volume.down", needle |-> StrVolumeDown,
        actions |-> << Did("emit", "DecreaseVolumeIntent", "play_sound=True") >>],
       [name |-> "system.test.begin", needle |-> StrSystemTestBegin,
        actions |-> << Did("emit", "recognizer_loop:sleep", "") >>],
       [name |-> "system.test.end", needle |-> StrSystemTestEnd,
        actions |-> << Did("emit", "recognizer_loop:wake_up", "") >>],
       [name |-> "mic.test", needle |-> StrMicTest,
        actions |-> MicTestActions],
       [name |-> "unit.shutdown", needle |-> StrUnitShutdown,
        actions |-> << Did("emit", "enclosure.eyes.timedspin", "length=12000"),
                       Did("emit", "enclosure.mouth.reset", ""),
                       Did("call", "systemctl poweroff -i", "") >>],
       [name |-> "unit.reboot", needle |-> StrUnitReboot,
        actions |-> << Did("emit", "enclosure.eyes.spin", ""),
                       Did("emit", "enclosure.mouth.reset", ""),
                       Did("call", "systemctl reboot -i", "") >>],
       [name |-> "unit.setwifi", needle |-> StrUnitSetwifi,
        actions |-> << Did("emit", "mycroft.wifi.start", "") >>],
       [name |-> "unit.factory-reset", needle |-> StrUnitFactoryReset,
        actions |-> << Did("call", "rm ~/.mycroft/identity/identity.json", ""),
                       Did("emit", "enclosure.eyes.spin", ""),
                       Did("emit", "enclosure.mouth.reset", ""),
                       Did("call", "systemctl reboot -i", "") >>] >>

\* the condition of the if statement number i of process
BranchMatches(d, i) == Contains(d, DispatchTable[i].needle)

\* the branches whose action can raise: mic.test opens the ALSA mixer,
\* records and plays, which fails on a unit without the sound device
MayRaise(i) == DispatchTable[i].name = "mic.test"

\* Python s[:-2]
DropLastTwo(s) == IF Len(s) <= 2 THEN <<>> ELSE SubSeq(s, 1, Len(s) - 2)

\* what self.serial.readline() may return: lines of the Arduino, which end
\* in "\r\n" (Serial.println), lines that end in "\n" alone, and nothing
\* when the read times out
InboundLines ==
    { StrMycroftStop \o CRLF,
      StrMycroftStop \o LF,
      StrVolumeUp \o StrSpace \o StrMicTest \o CRLF,
      StrMicTest \o StrSpace \o StrUnitSetwifi \o CRLF,
      StrMycroftStop \o StrMicTest \o StrUnitReboot \o CRLF,
      StrVolumeDown \o StrSystemTestBegin \o StrSystemTestEnd \o CRLF,
      StrUnitShutdown \o StrSpace \o StrUnitFactoryReset \o CRLF,
      StrNoise \o StrVolumeUp \o StrNoise \o CRLF,
      StrNoise \o CRLF,
      CRLF,
      LF,
      <<>> }

\* read: while self.alive
ReaderLoop ==
    /\ readerPc = "top"
    /\ readerPc' = IF readerAlive THEN "readline" ELSE "exit"
    /\ UNCHANGED <<readerAlive, data, branch, emitted, fired, raisedAt,
                   lineResult, faulted, line>>
    /\ UNCHANGED <<mainVars, busVars, callVars, writerVars>>
    /\ UNCHANGED lifeVars

\* read: data = self.serial.readline()[:-2]; if data: self.process(data)
ReaderReadline ==
    /\ readerPc = "readline"
    /\ \E raw \in InboundLines :
          /\ line' = raw
          /\ data' = DropLastTwo(raw)
          /\ IF DropLastTwo(raw) # <<>>
             THEN /\ readerPc' = "process"
                  /\ lineResult' = "processing"
                  /\ UNCHANGED faulted
             ELSE /\ readerPc' = "top"
                  /\ lineResult' = "empty"
                  /\ faulted' = TRUE
    /\ branch' = 0
    /\ emitted' = <<>>
    /\ fired' = <<>>
    /\ raisedAt' = 0
    /\ UNCHANGED readerAlive
    /\ UNCHANGED <<mainVars, busVars, callVars, writerVars>>
    /\ UNCHANGED lifeVars

\* a read that ends its thread on an exception
ReaderAfterExceptionExit == "exit"

\* read, except Exception as e: LOGGER.error(...): the loop goes on
ReaderAfterException == "top"

\* read: self.serial.readline() raises; except Exception: log; loop
ReaderReadError ==
    /\ readerPc = "readline"
    /\ readerPc' = ReaderAfterException
    /\ lineResult' = "read error"
    /\ faulted' = TRUE
    /\ line' = <<>>
    /\ data' = <<>>
    /\ branch' = 0
    /\ emitted' = <<>>
    /\ fired' = <<>>
    /\ raisedAt' = 0
    /\ UNCHANGED readerAlive
    /\ UNCHANGED <<mainVars, busVars, callVars, writerVars>>
    /\ UNCHANGED lifeVars

\* process: self.client.emit(Message(data))
ProcessEmitLine ==
    /\ readerPc = "process"
    /\ branch = 0
    /\ emitted' = Append(emitted, EmitLine(data))
    /\ branch' = 1
    /\ UNCHANGED <<readerAlive, readerPc, data, fired, raisedAt, lineResult,
                   faulted, line>>
    /\ UNCHANGED <<mainVars, busVars, callVars, writerVars>>
    /\ UNCHANGED lifeVars

\* process: the if statement number branch.  Its action runs when the
\* substring is in data; an exception of the action leaves process and is
\* caught by read (except Exception: log; loop).
ProcessBranch ==
    /\ readerPc = "process"
    /\ branch \in 1..Len(DispatchTable)
    /\ IF BranchMatches(data, branch)
       THEN \E raises \in (IF MayRaise(branch) THEN BOOLEAN ELSE {FALSE}) :
               /\ fired' = Append(fired, DispatchTable[branch].name)
               /\ IF raises
                  THEN /\ raisedAt' = branch
                       /\ readerPc' = ReaderAfterException
                       /\ lineResult' = "raised"
                       /\ faulted' = TRUE
                       /\ UNCHANGED <<emitted, branch, line>>
                  ELSE /\ emitted' = emitted \o DispatchTable[branch].actions
                       /\ branch' = branch + 1
                       /\ UNCHANGED <<raisedAt, readerPc, lineResult,
                                      faulted, line>>
       ELSE /\ branch' = branch + 1
            /\ UNCHANGED <<emitted, fired, raisedAt, readerPc, lineResult,
                           faulted, line>>
    /\ UNCHANGED <<readerAlive, data>>
    /\ UNCHANGED <<mainVars, busVars, callVars, writerVars>>
    /\ UNCHANGED lifeVars

\* process returns; read: LOGGER.info("Reading: " + data); loop
ProcessReturn ==
    /\ readerPc = "process"
    /\ branch = Len(DispatchTable) + 1
    /\ readerPc' = "top"
    /\ lineResult' = "returned"
    /\ UNCHANGED <<readerAlive, data, branch, emitted, fired, raisedAt,
                   faulted, line>>
    /\ UNCHANGED <<mainVars, busVars, callVars, writerVars>>
    /\ UNCHANGED lifeVars

\* ------------------------------------------------------------------------
\* Initial states
\* ------------------------------------------------------------------------

InitWriterIdle ==
    /\ commands = <<>>
    /\ nextSeq = 1
    /\ cmd = NoCmd
    /\ lastAttempt = 0
    /\ lastWritten = 0
    /\ writeResult = "none"
    /\ failures = 0

InitCallersIdle ==
    /\ todo = [p \in Callers |-> <<>>]
    /\ handler = [p \in Callers |-> "none"]
    /\ enq = [p \in Callers |-> <<>>]
    /\ curInv = [p \in Callers |-> 0]
    /\ nextInv = 1
    /\ busEvents = 0

NoEvent == [name |-> "none", flag |-> "absent"]

NoListeners == [e \in EventNames |-> <<>>]

InitBusFresh ==
    /\ listeners = NoListeners
    /\ busError = "none"
    /\ invoked = <<>>
    /\ lastEvent = NoEvent

InitReaderIdle ==
    /\ data = <<>>
    /\ branch = 0
    /\ emitted = <<>>
    /\ fired = <<>>
    /\ raisedAt = 0
    /\ lineResult = "none"
    /\ faulted = FALSE
    /\ line = <<>>

\* Enclosure.stop has not been called
InitNotStopping ==
    /\ stopPc = "idle"
    /\ stopCalls = 0

\* no thread of the enclosure has been started
InitNoThreads ==
    /\ writerPc = "none"
    /\ writerAlive = FALSE
    /\ readerPc = "none"
    /\ readerAlive = FALSE
    /\ InitReaderIdle

\* both threads run
InitThreads ==
    /\ writerPc = "top"
    /\ writerAlive = TRUE
    /\ readerPc = "top"
    /\ readerAlive = TRUE
    /\ InitReaderIdle

\* __init__ of a Mark 1 has opened the port; how it got there: the platform
\* was persisted (mark1Known), or detect_platform has just found it
InitConnected(mark1Known) ==
    /\ persisted = "mycroft_mark_1"
    /\ platform = "mycroft_mark_1"
    /\ resetSelf = ~mark1Known
    /\ serial = "open"
    /\ openHandles = 1
    /\ detectPc = "idle"
    /\ attempts = IF mark1Known THEN 0 ELSE 1
    /\ pings = IF mark1Known THEN 0 ELSE 1
    /\ serialOut = IF mark1Known THEN <<>> ELSE <<"system.ping">>
    /\ configAtStart = IF mark1Known THEN "mycroft_mark_1" ELSE "none"
    /\ runs = 1
    /\ InitNotStopping
    /\ detectLog = IF mark1Known
                   THEN <<>>
                   ELSE <<[stage |-> "reply", reply |-> StrCommandPing \o CRLF,
                           result |-> "mycroft_mark_1"]>>

\* ------------------------------------------------------------------------
\* SpecStartup: Enclosure.__init__, from the configuration as it is found
\* to the return or the exception; the writer thread runs once started
\* ------------------------------------------------------------------------

InitStartup ==
    /\ initPc = "config"
    /\ persisted \in {"none", "mycroft_mark_1", "unknown"}
    /\ configAtStart = persisted
    /\ runs = 1
    /\ InitNotStopping
    /\ platform = "none"
    /\ resetSelf = FALSE
    /\ serial = "none"
    /\ openHandles = 0
    /\ detectPc = "idle"
    /\ attempts = 0
    /\ pings = 0
    /\ serialOut = <<>>
    /\ detectLog = <<>>
    /\ InitBusFresh
    /\ InitCallersIdle
    /\ InitWriterIdle
    /\ InitNoThreads

WriterThread ==
    \/ WriterLoop
    \/ WriterGet
    \/ SerialWriteOk
    \/ SerialWriteError

NextStartup ==
    \/ InitReadConfig
    \/ DetectBegin
    \/ DetectOpen
    \/ DetectPing
    \/ DetectRead
    \/ InitAfterFirst
    \/ InitPersist
    \/ InitCheck
    \/ InitStartThreads
    \/ RegisterEvents
    \/ InitSelfReset
    \/ InitReturn
    \/ WriterWrite("main")
    \/ WriterThread

SpecStartup == InitStartup /\ [][NextStartup]_vars

\* ------------------------------------------------------------------------
\* SpecWriter: the connected enclosure from the self reset of __init__ on;
\* then the bus delivers reset events and the main thread runs setup while
\* the writer thread drains the queue
\* ------------------------------------------------------------------------

InitWriter ==
    /\ initPc = "selfreset"
    /\ \E mark1Known \in BOOLEAN : InitConnected(mark1Known)
    /\ listeners = RegisterMouthEvents(RegisterBaseline(NoListeners))
    /\ busError = "none"
    /\ invoked = <<>>
    /\ lastEvent = NoEvent
    /\ InitCallersIdle
    /\ InitWriterIdle
    /\ InitThreads

BusReset == busEvents < MaxResets /\ DeliverReset

NextWriter ==
    \/ InitSelfReset
    \/ InitReturn
    \/ Setup
    \/ BusReset
    \/ \E p \in Callers : WriterWrite(p)
    \/ WriterThread

SpecWriter == InitWriter /\ [][NextWriter]_vars

\* ------------------------------------------------------------------------
\* SpecBus: the connected enclosure from __register_events on; then the bus
\* delivers pairing, listener-toggle, reset and mouth events
\* ------------------------------------------------------------------------

ToggleFlags == {"absent", "on", "off"}

InitBus ==
    /\ initPc = "register"
    /\ InitConnected(TRUE)
    /\ InitBusFresh
    /\ InitCallersIdle
    /\ InitWriterIdle
    /\ InitThreads

BusResetEvent == busEvents < MaxBusEvents /\ DeliverReset

NextBus ==
    \/ RegisterEvents
    \/ InitSelfReset
    \/ \E flag \in ToggleFlags : BusPaired(flag)
    \/ \E flag \in ToggleFlags : BusMouthListeners(flag)
    \/ \E k \in 1..Len(MouthEvents) : BusMouthEvent(k)
    \/ BusResetEvent
    \/ WriterWrite("bus")

SpecBus == InitBus /\ [][NextBus]_vars

\* ------------------------------------------------------------------------
\* SpecReader: the connected enclosure; the reader thread reads lines of
\* the serial port and dispatches them
\* ------------------------------------------------------------------------

InitReader ==
    /\ initPc = "joined"
    /\ InitConnected(TRUE)
    /\ listeners = RegisterMouthEvents(RegisterBaseline(NoListeners))
    /\ busError = "none"
    /\ invoked = <<>>
    /\ lastEvent = NoEvent
    /\ InitCallersIdle
    /\ InitWriterIdle
    /\ InitThreads

NextReader ==
    \/ ReaderLoop
    \/ ReaderReadline
    \/ ReaderReadError
    \/ ProcessEmitLine
    \/ ProcessBranch
    \/ ProcessReturn

SpecReader == InitReader /\ [][NextReader]_vars


\* ------------------------------------------------------------------------
\* SpecStop: the connected enclosure, both threads running, the main thread
\* in t.join() after a setup that had nothing to write; the bus delivers
\* reset events until client.run_forever raises and run calls
\* Enclosure.stop
\* ------------------------------------------------------------------------

InitStop ==
    /\ initPc = "joined"
    /\ InitConnected(TRUE)
    /\ listeners = RegisterMouthEvents(RegisterBaseline(NoListeners))
    /\ busError = "none"
    /\ invoked = <<>>
    /\ lastEvent = NoEvent
    /\ InitCallersIdle
    /\ InitWriterIdle
    /\ InitThreads

ReaderThread ==
    \/ ReaderLoop
    \/ ReaderReadline
    \/ ReaderReadError
    \/ ProcessEmitLine
    \/ ProcessBranch
    \/ ProcessReturn

StopThread ==
    \/ StopBegin
    \/ WriterStopSignal
    \/ WriterJoin
    \/ ReaderStopSignal
    \/ ReaderJoin
    \/ StopDisconnect

StopReset == busEvents < MaxStopResets /\ DeliverReset

NextStop ==
    \/ StopReset
    \/ \E p \in Callers : WriterWrite(p)
    \/ WriterThread
    \/ ReaderThread
    \/ StopThread

SpecStop == InitStop /\ [][NextStop]_vars

\* every thread that can take a step is scheduled again: the writer thread,
\* the reader thread, the thread inside stop, and each caller of write
SpecStopFair ==
    /\ SpecStop
    /\ WF_vars(WriterThread)
    /\ WF_vars(ReaderThread)
    /\ WF_vars(StopThread)
    /\ \A p \in Callers : WF_vars(WriterWrite(p))

\* ------------------------------------------------------------------------
\* SpecRestart: Enclosure.__init__ as in SpecStartup; a start that failed
\* is followed by the next start of the process
\* ------------------------------------------------------------------------

NextRestart ==
    \/ NextStartup
    \/ ProcessRestart

SpecRestart == InitStartup /\ [][NextRestart]_vars
\* ------------------------------------------------------------------------
\* Properties of the writer (SpecWriter)
\* ------------------------------------------------------------------------

\* every command of the queue, and the one the writer holds
Pipeline ==
    {commands[i] : i \in 1..Len(commands)} \cup (IF cmd = NoCmd THEN {} ELSE {cmd})

QueueInEnqueueOrder ==
    \A i \in 1..Len(commands) : \A j \in 1..Len(commands) :
        i < j => commands[i].seq < commands[j].seq

\* C1: the commands are written to the serial port in the order of their
\* enqueue, whichever caller enqueued them: the queue holds them in enqueue
\* order, and every command the serial port accepts was enqueued after
\* every command it accepted before.
C1_WrittenInEnqueueOrder ==
    /\ []QueueInEnqueueOrder
    /\ [][lastWritten' # lastWritten =>
            /\ lastWritten' = cmd.seq
            /\ cmd.seq > lastWritten
            /\ serialOut' = WireLine(cmd.cmd)]_vars

\* C1 witness: both callers have enqueued, the command of the main thread
\* went out on the serial port between commands of the bus thread.
C1_Witness ==
    /\ serialOut = WireLine("test.begin")
    /\ lastWritten >= 3
    /\ Len(commands) >= 2

\* C2: the queue never holds more than QueueSize commands; while it is full
\* no caller's write returns; and a write that completes appends its
\* command behind everything already queued, which stays as it was.
C2_BoundedBlockingPut ==
    /\ [](Len(commands) <= QueueSize)
    /\ [][\A p \in Callers :
            (todo[p] # <<>> /\ todo'[p] # todo[p]) =>
                /\ Len(commands) < QueueSize
                /\ commands' = Append(commands,
                                      Entry(Head(todo[p]), nextSeq, curInv[p]))
                /\ todo'[p] = Tail(todo[p])]_vars

\* C2 witness: the queue is full again after the writer has drained some of
\* it, and both callers are blocked in write with a command in hand.
C2_Witness ==
    /\ Len(commands) = QueueSize
    /\ lastWritten >= 1
    /\ \A p \in Callers : todo[p] # <<>>
    /\ commands[QueueSize].seq > QueueSize

\* the commands of p's current handler invocation, as text
EnqueuedText(p) == [i \in 1..Len(enq[p]) |-> enq[p][i].cmd]

\* the commands on their way to the serial port, the next to be written
\* first
PipelineSeq == (IF cmd = NoCmd THEN <<>> ELSE <<cmd>>) \o commands

\* C8: an invocation of the reset handler enqueues eyes.reset and then
\* mouth.reset and nothing else; and on the way to the serial port the
\* eyes.reset of an invocation is ahead of the mouth.reset of the same
\* invocation, which is never under way while its eyes.reset still waits
\* to be enqueued.
C8_ResetEnqueuesEyesThenMouth ==
    /\ \A p \in Callers :
        handler[p] = "reset" =>
            /\ Len(enq[p]) + Len(todo[p]) = 2
            /\ todo[p] = <<>> => EnqueuedText(p) = <<"eyes.reset", "mouth.reset">>
            /\ Len(enq[p]) = 2 => enq[p][1].seq < enq[p][2].seq
            /\ \A i \in 1..Len(PipelineSeq) :
                 (PipelineSeq[i].inv = curInv[p] /\ PipelineSeq[i].cmd = "mouth.reset")
                     => \A j \in 1..Len(todo[p]) : todo[p][j] # "eyes.reset"
    /\ \A i \in 1..Len(PipelineSeq) : \A j \in 1..Len(PipelineSeq) :
         ( /\ PipelineSeq[i].inv = PipelineSeq[j].inv
           /\ PipelineSeq[i].cmd = "eyes.reset"
           /\ PipelineSeq[j].cmd = "mouth.reset" ) => i < j

\* C8 witness: a reset invocation of the bus thread has returned and its
\* mouth.reset has just been written to the serial port.
C8_Witness ==
    /\ handler["bus"] = "reset"
    /\ todo["bus"] = <<>>
    /\ Len(enq["bus"]) = 2
    /\ writeResult = "ok"
    /\ lastWritten = enq["bus"][2].seq
    /\ serialOut = WireLine("mouth.reset")

\* C10: a failed serial write does not end the writer loop and the failed
\* command is dropped: it is not put back, no command is handed to the
\* serial port twice, and the commands behind it stay queued in order for
\* the next iterations.
C10_WriteErrorDropsAndContinues ==
    /\ [](writerPc # "exit")
    /\ [](\A e \in Pipeline : e.seq > lastAttempt)
    /\ [][failures' # failures =>
            /\ writerPc' = "top"
            /\ writerAlive'
            /\ cmd' = NoCmd
            /\ commands' = commands
            /\ lastWritten' = lastWritten]_vars

\* C10 witness: after a failed write the loop has gone on and written a
\* command that was enqueued behind the failed one.
C10_Witness ==
    /\ failures >= 1
    /\ writeResult = "ok"
    /\ lastWritten >= 3
    /\ writerPc = "get"


\* ------------------------------------------------------------------------
\* Properties of the startup (SpecStartup)
\* ------------------------------------------------------------------------

\* the detect_platform call number n saw the echo of the ping
SawEcho(n) == Contains(detectLog[n].reply, StrCommandPing)

\* __init__ is past its detection: no detect_platform call is running or
\* still to come
DetectionOver ==
    /\ Len(detectLog) >= 1
    /\ initPc \notin {"config", "detect1", "after1", "detect2"}

Count(l, h) == Cardinality({i \in 1..Len(l) : l[i] = h})

\* how often the mouth handler number k is subscribed to its event
Subscribed(k) == Count(listeners[MouthEvents[k].event], MouthEvents[k].handler)

\* C4: activating the mouth subscriptions when they are active, or
\* deactivating them when they are not, changes nothing: no mouth handler is
\* ever subscribed to its event more than once, and no delivered event ends
\* with an exception of a removal.
C4_ToggleIsIdempotent ==
    /\ \A k \in 1..Len(MouthEvents) : Subscribed(k) <= 1
    /\ busError = "none"

\* C5: when a mycroft.paired event with paired=false has been delivered, the
\* recognizer_loop:record_begin event that follows it runs no mouth handler
\* and writes no command.
C5_UnpairedStopsMouth ==
    [][( /\ lastEvent = [name |-> "mycroft.paired", flag |-> "off"]
         /\ busEvents' # busEvents
         /\ lastEvent'.name = "recognizer_loop:record_begin" )
        => (invoked' = <<>> /\ todo'["bus"] = <<>>)]_vars

\* ------------------------------------------------------------------------
\* Properties of the reader (SpecReader)
\* ------------------------------------------------------------------------

\* the numbers of the branches whose substring is in d, in table order
MatchingBranches(d) ==
    LET matches(i) == BranchMatches(d, i)
    IN  SelectSeq([i \in 1..Len(DispatchTable) |-> i], matches)

\* the names of those branches
MatchingNames(d) ==
    [n \in 1..Len(MatchingBranches(d)) |-> DispatchTable[MatchingBranches(d)[n]].name]

\* read is done with the line in data: process has returned or raised
LineDone == lineResult \in {"returned", "raised"}

\* C6: for a line with more than one recognized substring, process has
\* entered, when it is done, the branch of every substring of the line,
\* once each and in table order, and no other branch.
C6_EveryMatchingBranchFires ==
    (LineDone /\ Len(MatchingBranches(data)) > 1) => fired = MatchingNames(data)

\* C7: the line "mycroft.stop" makes process publish the line itself, then
\* persist the buttonPress signal, then publish mycroft.stop, each once and
\* nothing else; and for every line the first thing process does is to
\* publish the line, once, before any action of a branch.
C7_StopLineAndLineFirst ==
    /\ (lineResult = "returned" /\ data = StrMycroftStop) =>
          emitted = << EmitLine(StrMycroftStop),
                       Did("create_signal", "buttonPress", ""),
                       Did("emit", "mycroft.stop", "") >>
    /\ (fired # <<>> \/ emitted # <<>>) =>
          /\ emitted # <<>>
          /\ emitted[1] = EmitLine(data)
          /\ \A i \in 2..Len(emitted) : emitted[i].kind # "emit_line"
    /\ lineResult = "returned" => emitted # <<>>

\* C7 witness: process has returned from the line "mycroft.stop" with the
\* stop event as the last thing it published.
C7_Witness ==
    /\ lineResult = "returned"
    /\ data = StrMycroftStop
    /\ fired = <<"mycroft.stop">>
    /\ Len(emitted) = 3
    /\ emitted[3] = Did("emit", "mycroft.stop", "")

\* C9: when the action of a branch has raised, every later branch whose
\* substring is in the line has fired all the same by the time read is done
\* with the line.
C9_BranchesIndependentlyGuarded ==
    (LineDone /\ raisedAt # 0) =>
        \A i \in (raisedAt + 1)..Len(DispatchTable) :
            BranchMatches(data, i) =>
                \E n \in 1..Len(fired) : fired[n] = DispatchTable[i].name

\* ------------------------------------------------------------------------
\* Properties of the shutdown and of the reader loop (SpecStop)
\* ------------------------------------------------------------------------

\* Enclosure.stop is past self.writer.stop()
WriterStopReturned ==
    stopPc \in {"reader_stop", "reader_join", "disconnect", "stopped"}

\* Enclosure.stop is past self.reader.stop()
ReaderStopReturned == stopPc \in {"disconnect", "stopped"}

\* the first call of stop has closed the port
ClosedByStop == stopCalls > 0 /\ serial = "none"

\* C11: EnclosureWriter.stop and EnclosureReader.stop return only when their
\* thread has left its loop, and stop closes the port only after both: in
\* every state where stop has closed the port, the writer thread and the
\* reader thread have exited, so neither reads from or writes to it again.
C11_NoUseAfterClose ==
    /\ WriterStopReturned => writerPc = "exit"
    /\ ReaderStopReturned => readerPc = "exit"
    /\ ClosedByStop =>
        /\ writerPc = "exit"
        /\ readerPc = "exit"
        /\ openHandles = 0
        /\ ~ENABLED WriterThread
        /\ ~ENABLED ReaderThread

\* C11 witness: stop has returned with the port closed, after the writer
\* thread had written a command and the reader had dispatched a line.
C11_Witness ==
    /\ stopPc = "stopped"
    /\ stopCalls = 1
    /\ serial = "none"
    /\ lastWritten > 0
    /\ lineResult = "returned"

\* C13: the reader thread leaves its loop only when alive is false.  A read
\* that times out, a read that raises and a dispatch that raises each end
\* the iteration at the top of the loop, from where the next line is read;
\* a line is read only when the dispatch of the line before it is over, and
\* the dispatch of a line starts with the event of that line.  A read that
\* returns nothing publishes no event.
C13_ReaderLoopSurvivesErrors ==
    /\ [](readerPc = "exit" => ~readerAlive)
    /\ [](lineResult \in {"empty", "read error"} => emitted = <<>>)
    /\ [](lineResult \in {"returned", "raised"} =>
            /\ data # <<>>
            /\ emitted # <<>>
            /\ emitted[1] = EmitLine(data))
    /\ [][(readerPc \in {"readline", "process"} /\ readerPc' # readerPc)
            => (readerPc' \in {"process", "top"})]_vars
    /\ [][(readerPc = "top" /\ readerPc' # readerPc)
            => (readerPc' = (IF readerAlive THEN "readline" ELSE "exit"))]_vars
    /\ [][(readerPc' = "readline" /\ readerPc # "readline")
            => (readerPc = "top" /\ readerAlive)]_vars

\* C13 witness: after an iteration that ended in a timeout or an exception
\* the reader has dispatched a whole line and is reading the next one.
C13_Witness ==
    /\ faulted
    /\ lineResult = "returned"
    /\ Len(emitted) > 1
    /\ readerPc = "readline"
    /\ readerAlive

\* C14: once stop is called, it returns with the port closed: the writer
\* thread and the reader thread each see the stop signal and exit, whatever
\* the queue holds, and a second call returns as well.
C14_StopTerminates ==
    (stopCalls > 0) ~> (stopPc = "stopped" /\ serial = "none")

\* ------------------------------------------------------------------------
\* Properties of the platform identity and of the serial port
\* (SpecStartup, SpecRestart)
\* ------------------------------------------------------------------------

\* both detect_platform calls of this startup have returned "unknown"
FinalUnknown ==
    /\ DetectionOver
    /\ attempts = 2
    /\ platform = "unknown"

\* what every startup with a final "unknown" does, whatever it stores:
\* it starts no thread, it can only fail, and when it has failed the port
\* is closed
UnknownFailsClosed ==
    FinalUnknown =>
        /\ initPc \in {"persist", "check", "failed"}
        /\ writerPc = "none"
        /\ readerPc = "none"
        /\ initPc = "failed" => (serial = "none" /\ openHandles = 0)

\* C12: when both detect_platform calls end with "unknown", startup closes
\* the port, starts neither thread and fails, and the configuration's
\* platform is what it was when the startup began: nothing is written.
C12_UnknownWritesNothing ==
    /\ UnknownFailsClosed
    /\ FinalUnknown => persisted = configAtStart

\* C12 as the code has it: when both detect_platform calls end with
\* "unknown", startup stores "unknown" as the configuration's platform,
\* then closes the port, starts neither thread and fails.
C12_UnknownIsStored ==
    /\ UnknownFailsClosed
    /\ (FinalUnknown /\ initPc = "persist") => persisted = configAtStart
    /\ (FinalUnknown /\ initPc \in {"check", "failed"}) =>
            /\ persisted = "unknown"
            /\ configAtStart = "none"

\* C12 witness: two detections that each got as far as the read, so the
\* port was open; startup has failed, the port is closed and "unknown" is
\* stored.
C12_Witness ==
    /\ initPc = "failed"
    /\ FinalUnknown
    /\ detectLog[2].stage = "reply"
    /\ serial = "none"
    /\ openHandles = 0
    /\ persisted = "unknown"

\* the three baseline subscriptions are registered
BaselineRegistered ==
    /\ listeners["mycroft.paired"] = <<"__update_events">>
    /\ listeners["enclosure.reset"] = <<"__handle_reset">>
    /\ listeners["enclosure.mouth.listeners"] = <<"__mouth_listeners">>

\* __init__ has written a command, or is about to
StartupWrites == nextSeq > 1 \/ todo["main"] # <<>>

\* C15: __init__ resets itself exactly when detect_platform ran in this
\* startup and found a Mark 1.  Then eyes.reset and mouth.reset are written
\* once, and not before both threads run and the baseline subscriptions are
\* registered.  A startup that found mycroft_mark_1 in the configuration
\* writes no command.
C15_SelfResetOnlyAfterDetection ==
    /\ StartupWrites =>
        /\ attempts > 0
        /\ platform = "mycroft_mark_1"
        /\ writerPc # "none"
        /\ readerPc # "none"
        /\ BaselineRegistered
        /\ initPc \in {"resetting", "done"}
        /\ EnqueuedText("main") \o todo["main"] = ResetCommands
    /\ initPc = "done" =>
        IF attempts > 0
        THEN /\ platform = "mycroft_mark_1"
             /\ EnqueuedText("main") = ResetCommands
             /\ nextSeq = 3
        ELSE /\ configAtStart = "mycroft_mark_1"
             /\ ~StartupWrites

\* C15 witness: the second detect_platform call found the Mark 1, and
\* __init__ has returned with both commands of the reset enqueued.
C15_Witness ==
    /\ initPc = "done"
    /\ attempts = 2
    /\ EnqueuedText("main") = ResetCommands

\* C16: a startup that finds mycroft_mark_1 in the configuration runs no
\* detection: it calls detect_platform never, writes no ping, reads no
\* reply, does not store the platform again, and goes on to open the port
\* and start the threads; it fails only when the port cannot be opened.
C16_KnownPlatformIsSticky ==
    configAtStart = "mycroft_mark_1" =>
        /\ attempts = 0
        /\ pings = 0
        /\ detectLog = <<>>
        /\ detectPc = "idle"
        /\ serialOut # <<"system.ping">>
        /\ persisted = "mycroft_mark_1"
        /\ ~resetSelf
        /\ initPc \in {"config", "check", "threads", "register", "selfreset",
                       "done", "failed"}
        /\ initPc = "failed" => serial = "none"
        /\ initPc \in {"threads", "register", "selfreset", "done"} =>
                serial = "open"
        /\ initPc \in {"register", "selfreset", "done"} =>
                (writerPc # "none" /\ readerPc # "none")

\* C16 witness: mycroft_mark_1 was configured and __init__ has returned with
\* the port open and both threads started.
C16_Witness ==
    /\ configAtStart = "mycroft_mark_1"
    /\ initPc = "done"
    /\ serial = "open"
    /\ writerPc # "none"
    /\ readerPc # "none"

\* C17: an Enclosure never has more than one port open: __init_serial opens
\* one only when self.serial is not set, so the second detect_platform call
\* and the __init_serial of __init__ use the port the first call left open;
\* disconnect closes the port that is open and does nothing when none is,
\* as after a disconnect; a startup that has failed holds no port.
C17_AtMostOneOpenPort ==
    /\ openHandles <= 1
    /\ serial = "open" <=> openHandles = 1
    /\ serial = "none" <=> openHandles = 0
    /\ initPc = "failed" => serial = "none"
    /\ Disconnect(serial).closed = openHandles
    /\ Disconnect(Disconnect(serial).serial).closed = 0

\* C17 witness: the first detect_platform call opened the port and saw no
\* echo, the second used the same port and found the Mark 1, and __init__
\* has passed its own __init_serial with that one port open.
C17_Witness ==
    /\ attempts = 2
    /\ Len(detectLog) = 2
    /\ detectLog[1].stage = "reply"
    /\ detectLog[2].stage = "reply"
    /\ initPc = "threads"
    /\ openHandles = 1

\* C20: a startup that finds a platform other than mycroft_mark_1 in the
\* configuration ("unknown" too) calls detect_platform never, opens no port,
\* starts no thread and fails; so the start that follows a startup whose
\* detection ended with "unknown" does not detect again.
C20_ConfiguredUnknownNeverDetects ==
    /\ [](configAtStart \notin {"none", "mycroft_mark_1"} =>
            /\ attempts = 0
            /\ pings = 0
            /\ detectLog = <<>>
            /\ initPc \in {"config", "check", "failed"}
            /\ serial = "none"
            /\ openHandles = 0
            /\ writerPc = "none"
            /\ readerPc = "none"
            /\ persisted = configAtStart)
    /\ [][(FinalUnknown /\ initPc = "failed" /\ runs' # runs)
            => (configAtStart' = "unknown")]_vars

\* C20 witness: the first start detected twice and failed with "unknown";
\* the second start has failed without a detection.
C20_Witness ==
    /\ runs = 2
    /\ configAtStart = "unknown"
    /\ initPc = "failed"
    /\ attempts = 0

\* ------------------------------------------------------------------------
\* Properties of the inbound line (SpecReader) and of the mouth
\* subscriptions as a unit (SpecBus)
\* ------------------------------------------------------------------------

\* the text s ends with the text t
EndsWith(s, t) ==
    /\ Len(s) >= Len(t)
    /\ SubSeq(s, Len(s) - Len(t) + 1, Len(s)) = t

\* the line terminator of a line as read: "\r\n", "\n", or none
LineTerminator(l) ==
    IF EndsWith(l, CRLF) THEN CRLF ELSE IF EndsWith(l, LF) THEN LF ELSE <<>>

\* the line without its terminator
LineContent(l) == SubSeq(l, 1, Len(l) - Len(LineTerminator(l)))

\* C18: of a line that readline returns with its "\n" at the end, read hands
\* to process the content and nothing else: the line without its
\* terminator, every character of the content kept; that text is the name
\* of the first event process publishes, and a line with content is never
\* taken for an empty read.
C18_OnlyTerminatorStripped ==
    (line # <<>> /\ EndsWith(line, LF)) =>
        /\ data = LineContent(line)
        /\ LineContent(line) # <<>> => lineResult # "empty"
        /\ emitted # <<>> => emitted[1] = EmitLine(LineContent(line))

\* the mouth handler number k is subscribed to its event
MouthActive(k) == Subscribed(k) >= 1

\* C19: between two bus events the four mouth subscriptions are active
\* together or inactive together, whatever mycroft.paired and
\* enclosure.mouth.listeners events were delivered: never is one of the
\* four handlers subscribed while another is not.
C19_MouthSubscriptionsAsUnit ==
    initPc \in {"selfreset", "resetting", "done", "joined"} =>
        \/ \A k \in 1..Len(MouthEvents) : MouthActive(k)
        \/ \A k \in 1..Len(MouthEvents) : ~MouthActive(k)

\* C19 witness: the subscriptions were removed by one event, the next event
\* tried to remove them again and ended with the ValueError of the first
\* removal, and all four are inactive.
C19_Witness ==
    /\ busEvents >= 2
    /\ lastEvent.flag = "off"
    /\ busError = "ValueError"
    /\ \A k \in 1..Len(MouthEvents) : ~MouthActive(k)
====
